---- MODULE Spec2Model ----
(***************************************************************************)
(* A model of the generational bounded cache BoundedCache[V]: two maps,    *)
(* freshItems and staleItems, each capped at maxItemMapLen entries, behind *)
(* one sync.RWMutex.  Every exported method is a sequence of steps of the  *)
(* calling goroutine; the steps are cut where the method takes a lock, so  *)
(* that concurrent callers interleave exactly where the code lets them.    *)
(***************************************************************************)
EXTENDS Integers, Sequences, FiniteSets, TLC

\* ------------------------------------------------------------------ bounds
NumKeys == 4        \* keys "1".."4" of the single-caller specification
ConcKeys == 2       \* keys "1".."2" of the concurrent specification
NumValues == 2      \* values 1..NumValues
MaxMaxItems == 3    \* NewBoundedCache is called with maxItems in 1..MaxMaxItems
NumProcs == 2       \* goroutines of the concurrent specification
NumCallers == 3     \* goroutines racing on one GetOrCreate key
SetupLen == 2       \* adds that fill the cache before the GetOrCreate race
IntBits == 8        \* width of Go's int, scaled down from 64
NegArgs == 2        \* the constructor is also tried with -NegArgs..0
FairKeys == 1       \* keys of the specification with fair scheduling
AgeKeys == 5        \* keys of the specification that ages one key
AgeValues == 1      \* values of the specification that ages one key

\* var nilV V: the zero value of V, returned when a key is not found.
NilV == 0

\* NewBoundedCache[int](100) of TestNewBoundedCache
TestSize == 100

\* Go's int: two's complement of IntBits bits, / truncating towards zero.
MaxInt == 2^(IntBits - 1) - 1
MinInt == 0 - 2^(IntBits - 1)
AsInt(x) == ((x - MinInt) % 2^IntBits) + MinInt
IntQuo(a, b) == IF a >= 0 THEN a \div b ELSE 0 - ((0 - a) \div b)

KeysUpTo(n) == {ToString(i) : i \in 1..n}
Keys == KeysUpTo(NumKeys)
Values == 1..NumValues
NoKey == ""

VARIABLES
  staleItems,     \* BoundedCache.staleItems: map[string]V
  freshItems,     \* BoundedCache.freshItems: map[string]V
  maxItemMapLen,  \* BoundedCache.maxItemMapLen
  rwm,            \* BoundedCache.rwm: who holds the lock shared / exclusive
  pc,             \* per goroutine: where it stands in the method it called
  key,            \* per goroutine: the key argument of the call in progress
  val,            \* per goroutine: the val argument of the Add in progress
  ret,            \* per goroutine: what its last call returned
  ncreate,        \* per goroutine: invocations of create() by its last call
  fill,           \* history: the distinct keys added since the cache was empty
  lastAdd,        \* history: <<key, val>> of the Add that completed last
  made,           \* history: the maxItems argument the constructor was given
  watch,          \* history: what concurrent calls saw of their key
  age,            \* history: insertions since the tracked key was last used
  old             \* the cache of cache.go run with the same calls, and its result

vars == <<staleItems, freshItems, maxItemMapLen, rwm, pc, key, val, ret,
          ncreate, fill, lastAdd, made, watch, age, old>>

\* --------------------------------------------------------------- Go maps
EmptyMap == [x \in {} |-> NilV]
MapSet(m, k, v) == [x \in (DOMAIN m) \cup {k} |-> IF x = k THEN v ELSE m[x]]
MapDelete(m, k) == [x \in (DOMAIN m) \ {k} |-> m[x]]
MapLen(m) == Cardinality(DOMAIN m)

\* ------------------------------------------- the methods, on a cache value
\* A cache value b is the record of the struct's three data fields.
B == [staleItems |-> staleItems, freshItems |-> freshItems,
      maxItemMapLen |-> maxItemMapLen]

\* the keys some generation holds
Resident(b) == (DOMAIN b.freshItems) \cup (DOMAIN b.staleItems)

\* return nil, err: no cache
NoCache == [staleItems |-> EmptyMap, freshItems |-> EmptyMap, maxItemMapLen |-> 0]

NewBoundedCache(maxItems) ==
  IF maxItems < 1
    THEN [ok |-> FALSE, b |-> NoCache]
    ELSE [ok |-> TRUE, b |-> [staleItems |-> EmptyMap, freshItems |-> EmptyMap,
                              maxItemMapLen |-> IntQuo(AsInt(maxItems + 1), 2)]]

MaxItems(b) == AsInt(b.maxItemMapLen * 2)

CacheLen(b) == MapLen(b.freshItems) + MapLen(b.staleItems)

\* Mutation of PurgeLocked: staleItems is not replaced.
PurgeLockedFreshOnly(b) == [b EXCEPT !.freshItems = EmptyMap]

\* Purge, the body under the write lock.
PurgeLocked(b) == [b EXCEPT !.staleItems = EmptyMap, !.freshItems = EmptyMap]

\* Mutation of addLocked: > for >=, so a full fresh map is not rotated.
addLockedNoRotateAtFull(b, k, v) ==
  LET full == MapLen(b.freshItems) > b.maxItemMapLen
      s1 == IF full THEN b.freshItems ELSE b.staleItems
      f1 == IF full THEN EmptyMap ELSE b.freshItems
  IN [b |-> [b EXCEPT !.staleItems = s1, !.freshItems = MapSet(f1, k, v)],
      evicted |-> full /\ MapLen(b.staleItems) > 0]

\* Mutation of addLocked: evicted is set by every rotation, as in cache.go.
addLockedEvictedOnRotate(b, k, v) ==
  LET full == MapLen(b.freshItems) >= b.maxItemMapLen
      s1 == IF full THEN b.freshItems ELSE b.staleItems
      f1 == IF full THEN EmptyMap ELSE b.freshItems
  IN [b |-> [b EXCEPT !.staleItems = s1, !.freshItems = MapSet(f1, k, v)],
      evicted |-> full]

\* addLocked: rotate when the fresh map is full, then insert.
addLocked(b, k, v) ==
  LET full == MapLen(b.freshItems) >= b.maxItemMapLen
      s1 == IF full THEN b.freshItems ELSE b.staleItems
      f1 == IF full THEN EmptyMap ELSE b.freshItems
  IN [b |-> [b EXCEPT !.staleItems = s1, !.freshItems = MapSet(f1, k, v)],
      evicted |-> full /\ MapLen(b.staleItems) > 0]

\* Mutation of Peek: the two lookups swapped.
PeekStaleFirst(b, k) ==
  IF k \in DOMAIN b.staleItems
    THEN [val |-> b.staleItems[k], ok |-> TRUE, stale |-> TRUE]
    ELSE IF k \in DOMAIN b.freshItems
      THEN [val |-> b.freshItems[k], ok |-> TRUE, stale |-> FALSE]
      ELSE [val |-> NilV, ok |-> FALSE, stale |-> FALSE]

\* Peek, the body under the read lock.
Peek(b, k) ==
  IF k \in DOMAIN b.freshItems
    THEN [val |-> b.freshItems[k], ok |-> TRUE, stale |-> FALSE]
    ELSE IF k \in DOMAIN b.staleItems
      THEN [val |-> b.staleItems[k], ok |-> TRUE, stale |-> TRUE]
      ELSE [val |-> NilV, ok |-> FALSE, stale |-> FALSE]

\* Mutation of GetLocked: the stale value is returned but not promoted.
GetLockedNoPromote(b, k) ==
  IF k \in DOMAIN b.staleItems
    THEN [b |-> b, val |-> b.staleItems[k], ok |-> TRUE, evicted |-> FALSE]
    ELSE [b |-> b, val |-> NilV, ok |-> FALSE, evicted |-> FALSE]

\* Mutation of GetLocked: a miss stores the zero value under the key.
GetLockedInsertsOnMiss(b, k) ==
  IF k \in DOMAIN b.staleItems
    THEN LET v == b.staleItems[k]
             a == addLocked([b EXCEPT !.staleItems = MapDelete(@, k)], k, v)
         IN [b |-> a.b, val |-> v, ok |-> TRUE, evicted |-> a.evicted]
    ELSE [b |-> addLocked(b, k, NilV).b, val |-> NilV, ok |-> FALSE,
          evicted |-> FALSE]

\* Get, the body under the write lock: promote from stale, or not found.
GetLocked(b, k) ==
  IF k \in DOMAIN b.staleItems
    THEN LET v == b.staleItems[k]
             a == addLocked([b EXCEPT !.staleItems = MapDelete(@, k)], k, v)
         IN [b |-> a.b, val |-> v, ok |-> TRUE, evicted |-> a.evicted]
    ELSE [b |-> b, val |-> NilV, ok |-> FALSE, evicted |-> FALSE]

\* ---------------------------------------------------------- return values
\* What a call returned: the method, the source line of the return statement
\* taken, and the method's results (the fields a method has not are zero).
Ret(op, line, v, ok, created, evicted, stale, n) ==
  [op |-> op, line |-> line, val |-> v, ok |-> ok, created |-> created,
   evicted |-> evicted, stale |-> stale, n |-> n]
NoRet == Ret("", 0, NilV, FALSE, FALSE, FALSE, FALSE, 0)

\* --------------------------------------------------------------- history
FillStart == [on |-> TRUE, keys |-> <<>>, evicted |-> FALSE]
FillOff == [on |-> FALSE, keys |-> <<>>, evicted |-> FALSE]
Range(s) == {s[i] : i \in 1..Len(s)}
FillAdd(f, b, k, ev) ==
  IF f.on /\ k \notin Range(f.keys) /\ Len(f.keys) < MaxItems(b)
    THEN [on |-> TRUE, keys |-> Append(f.keys, k), evicted |-> f.evicted \/ ev]
    ELSE FillOff

\* The constructor's argument, where a specification records it.
MadeOff == [on |-> FALSE, maxItems |-> 0]

\* What concurrent calls saw: absent holds the goroutines whose Get in progress
\* has seen a state without its key; latest maps a key to the value that the
\* last Add or create() wrote for it.
WatchOff == [on |-> FALSE, absent |-> {}, latest |-> EmptyMap]
WatchStart == [on |-> TRUE, absent |-> {}, latest |-> EmptyMap]
InGet(q) == pc[q] \in {"Get_RLock", "Get_fast", "Get_Lock", "Get_slow"}
Observed(w, leaving) ==
  IF w.on
    THEN [w EXCEPT !.absent =
            (@ \cup {q \in DOMAIN pc : InGet(q) /\ key[q] \notin Resident(B)})
              \ leaving]
    ELSE w
Written(w, k, v, r) ==
  IF w.on /\ (r.op = "Add" \/ r.created)
    THEN [w EXCEPT !.latest = MapSet(@, k, IF r.op = "Add" THEN v ELSE r.val)]
    ELSE w

\* The use of TrackedKey: used says that the key was inserted or found since
\* the last Purge, ins counts the insertions completed since that use, adds
\* counts the Adds of keys never stored before since the last call on the key,
\* seen holds every key that was ever stored.
AgeOff == [on |-> FALSE, used |-> FALSE, ins |-> 0, adds |-> 0, seen |-> {}]
AgeStart == [on |-> TRUE, used |-> FALSE, ins |-> 0, adds |-> 0, seen |-> {}]

OldOff == [on |-> FALSE, b |-> NoCache, ret |-> NoRet]

\* ------------------------------------------------------------ sync.RWMutex
\* readers hold the lock shared, writer holds it exclusively.  A Lock() that
\* finds readers announces itself (pending) and waits for them to leave; an
\* RLock() that finds a writer holding or pending parks, and the writer's
\* Unlock() admits all parked readers at once.  A second Lock() waits until
\* the first writer has unlocked.
NoLock == [readers |-> {}, writer |-> {}, pending |-> {}, parked |-> {}]
CanRLock == rwm.writer = {} /\ rwm.pending = {}
CanLock == rwm.writer = {} /\ rwm.pending = {}
RLocked(p) == [rwm EXCEPT !.readers = @ \cup {p}]
RParked(p) == [rwm EXCEPT !.parked = @ \cup {p}]
RUnlocked(p) == [rwm EXCEPT !.readers = @ \ {p}]
Locked(p) == [rwm EXCEPT !.writer = {p}, !.pending = {}]
LockPending(p) == [rwm EXCEPT !.pending = {p}]
Unlocked(p) == [rwm EXCEPT !.writer = {}, !.readers = rwm.parked, !.parked = {}]

\* ------------------------------------------------------------------ Init
InitWith(P) ==
  /\ \E maxItems \in 1..MaxMaxItems :
       LET c == NewBoundedCache(maxItems)
       IN /\ c.ok
          /\ staleItems = c.b.staleItems
          /\ freshItems = c.b.freshItems
          /\ maxItemMapLen = c.b.maxItemMapLen
  /\ rwm = NoLock
  /\ pc = [p \in P |-> "idle"]
  /\ key = [p \in P |-> NoKey]
  /\ val = [p \in P |-> NilV]
  /\ ret = [p \in P |-> NoRet]
  /\ ncreate = [p \in P |-> 0]
  /\ fill = FillStart
  /\ lastAdd = <<>>
  /\ made = MadeOff
  /\ watch = WatchOff
  /\ age = AgeOff
  /\ old = OldOff

\* ----------------------------------------------------------------- steps
Idle(p) == pc[p] \in {"idle", "done"}

\* lastAdd is kept only across a call that repeats the Add it records.
Call(p, entry, k, v) ==
  /\ Idle(p)
  /\ pc' = [pc EXCEPT ![p] = entry]
  /\ key' = [key EXCEPT ![p] = k]
  /\ val' = [val EXCEPT ![p] = v]
  /\ ret' = [ret EXCEPT ![p] = NoRet]
  /\ ncreate' = [ncreate EXCEPT ![p] = 0]
  /\ lastAdd' = IF entry = "Add_Lock" /\ lastAdd = <<k, v>> THEN lastAdd ELSE <<>>
  /\ watch' = Observed(watch, {p})
  /\ UNCHANGED <<staleItems, freshItems, maxItemMapLen, rwm, fill, made, age, old>>

Goto(p, label) ==
  /\ pc' = [pc EXCEPT ![p] = label]
  /\ watch' = Observed(watch, {})
  /\ UNCHANGED <<key, val, ret, made, age, old>>

Return(p, r) ==
  /\ pc' = [pc EXCEPT ![p] = "done"]
  /\ key' = [key EXCEPT ![p] = NoKey]
  /\ val' = [val EXCEPT ![p] = NilV]
  /\ ret' = [ret EXCEPT ![p] = r]
  /\ watch' = Written(Observed(watch, {p}), key[p], val[p], r)
  /\ UNCHANGED <<made, age, old>>

Store(b) ==
  /\ staleItems' = b.staleItems
  /\ freshItems' = b.freshItems
  /\ maxItemMapLen' = b.maxItemMapLen

\* RLock(): enter, or park behind a writer; a parked reader that the writer's
\* Unlock() admitted goes on.
AcquireRLock(p, label) ==
  /\ IF p \in rwm.readers
       THEN UNCHANGED rwm /\ Goto(p, label)
       ELSE IF CanRLock
         THEN rwm' = RLocked(p) /\ Goto(p, label)
         ELSE /\ p \notin rwm.parked
              /\ rwm' = RParked(p)
              /\ Goto(p, pc[p])
  /\ UNCHANGED <<staleItems, freshItems, maxItemMapLen, ncreate, fill, lastAdd>>

\* Lock(): take the lock when it is free, else announce and wait for the
\* readers to leave.
AcquireLock(p, label) ==
  /\ IF p \in rwm.pending
       THEN /\ rwm.readers = {}
            /\ rwm' = Locked(p)
            /\ Goto(p, label)
       ELSE /\ CanLock
            /\ IF rwm.readers = {}
                 THEN rwm' = Locked(p) /\ Goto(p, label)
                 ELSE rwm' = LockPending(p) /\ Goto(p, pc[p])
  /\ UNCHANGED <<staleItems, freshItems, maxItemMapLen, ncreate, fill, lastAdd>>

\* MaxItems(): no lock.
MaxItems_call(p) ==
  /\ Idle(p)
  /\ Return(p, Ret("MaxItems", 29, NilV, FALSE, FALSE, FALSE, FALSE, MaxItems(B)))
  /\ ncreate' = [ncreate EXCEPT ![p] = 0]
  /\ lastAdd' = <<>>
  /\ UNCHANGED <<staleItems, freshItems, maxItemMapLen, rwm, fill>>

\* Len()
CallLen(p) == Call(p, "Len_RLock", NoKey, NilV)
Len_RLock(p) == pc[p] = "Len_RLock" /\ AcquireRLock(p, "Len_read")
Len_read(p) ==
  /\ pc[p] = "Len_read"
  /\ rwm' = RUnlocked(p)
  /\ Return(p, Ret("Len", 36, NilV, FALSE, FALSE, FALSE, FALSE, CacheLen(B)))
  /\ lastAdd' = <<>>
  /\ UNCHANGED <<staleItems, freshItems, maxItemMapLen, ncreate, fill>>

\* Purge()
CallPurge(p) == Call(p, "Purge_Lock", NoKey, NilV)
Purge_Lock(p) == pc[p] = "Purge_Lock" /\ AcquireLock(p, "Purge_locked")
Purge_locked(p) ==
  /\ pc[p] = "Purge_locked"
  /\ Store(PurgeLocked(B))
  /\ rwm' = Unlocked(p)
  /\ Return(p, Ret("Purge", 45, NilV, FALSE, FALSE, FALSE, FALSE, 0))
  /\ fill' = FillStart
  /\ lastAdd' = <<>>
  /\ UNCHANGED ncreate

\* Add(key, val)
CallAdd(p, K) == \E k \in K, v \in Values : Call(p, "Add_Lock", k, v)
Add_Lock(p) == pc[p] = "Add_Lock" /\ AcquireLock(p, "Add_locked")
Add_locked(p) ==
  /\ pc[p] = "Add_locked"
  /\ LET a == addLocked(B, key[p], val[p])
     IN /\ Store(a.b)
        /\ Return(p, Ret("Add", 51, NilV, FALSE, FALSE, a.evicted, FALSE, 0))
        /\ fill' = FillAdd(fill, B, key[p], a.evicted)
  /\ rwm' = Unlocked(p)
  /\ lastAdd' = <<key[p], val[p]>>
  /\ UNCHANGED ncreate

\* Mutation of Get_fast: the miss path keeps the read lock.
Get_fastKeepsRLock(p) ==
  /\ pc[p] = "Get_fast"
  /\ IF key[p] \in DOMAIN freshItems
       THEN /\ rwm' = RUnlocked(p)
            /\ Return(p, Ret("Get", 62, freshItems[key[p]], TRUE, FALSE, FALSE,
                             FALSE, 0))
            /\ lastAdd' = <<>>
       ELSE /\ Goto(p, "Get_Lock")
            /\ UNCHANGED <<rwm, lastAdd>>
  /\ UNCHANGED <<staleItems, freshItems, maxItemMapLen, ncreate, fill>>

\* Get(key)
CallGet(p, K) == \E k \in K : Call(p, "Get_RLock", k, NilV)
Get_RLock(p) == pc[p] = "Get_RLock" /\ AcquireRLock(p, "Get_fast")
Get_fast(p) ==
  /\ pc[p] = "Get_fast"
  /\ rwm' = RUnlocked(p)
  /\ IF key[p] \in DOMAIN freshItems
       THEN /\ Return(p, Ret("Get", 62, freshItems[key[p]], TRUE, FALSE, FALSE,
                             FALSE, 0))
            /\ lastAdd' = <<>>
       ELSE /\ Goto(p, "Get_Lock")
            /\ UNCHANGED lastAdd
  /\ UNCHANGED <<staleItems, freshItems, maxItemMapLen, ncreate, fill>>
Get_Lock(p) == pc[p] = "Get_Lock" /\ AcquireLock(p, "Get_slow")
Get_slow(p) ==
  /\ pc[p] = "Get_slow"
  /\ LET g == GetLocked(B, key[p])
     IN /\ Store(g.b)
        /\ Return(p, Ret("Get", IF g.ok THEN 75 ELSE 79, g.val, g.ok, FALSE, g.evicted,
                      FALSE, 0))
        /\ fill' = IF g.ok THEN FillOff ELSE fill
  /\ rwm' = Unlocked(p)
  /\ lastAdd' = <<>>
  /\ UNCHANGED ncreate

\* Peek(key)
CallPeek(p, K) == \E k \in K : Call(p, "Peek_RLock", k, NilV)
Peek_RLock(p) == pc[p] = "Peek_RLock" /\ AcquireRLock(p, "Peek_read")
Peek_read(p) ==
  /\ pc[p] = "Peek_read"
  /\ LET r == Peek(B, key[p])
     IN Return(p, Ret("Peek", IF r.ok THEN (IF r.stale THEN 96 ELSE 92) ELSE 100,
                    r.val, r.ok, FALSE, FALSE, r.stale, 0))
  /\ rwm' = RUnlocked(p)
  /\ lastAdd' = <<>>
  /\ UNCHANGED <<staleItems, freshItems, maxItemMapLen, ncreate, fill>>

\* GetOrCreate(key, create)
CallGetOrCreate(p, K) == \E k \in K : Call(p, "GetOrCreate_RLock", k, NilV)
GetOrCreate_RLock(p) ==
  pc[p] = "GetOrCreate_RLock" /\ AcquireRLock(p, "GetOrCreate_fast")
GetOrCreate_fast(p) ==
  /\ pc[p] = "GetOrCreate_fast"
  /\ rwm' = RUnlocked(p)
  /\ IF key[p] \in DOMAIN freshItems
       THEN /\ Return(p, Ret("GetOrCreate", 109, freshItems[key[p]], FALSE, FALSE,
                             FALSE, FALSE, 0))
            /\ lastAdd' = <<>>
       ELSE /\ Goto(p, "GetOrCreate_Lock")
            /\ UNCHANGED lastAdd
  /\ UNCHANGED <<staleItems, freshItems, maxItemMapLen, ncreate, fill>>
GetOrCreate_Lock(p) ==
  pc[p] = "GetOrCreate_Lock" /\ AcquireLock(p, "GetOrCreate_slow")

\* Mutation of GetOrCreate_slow: freshItems is not looked at again.
GetOrCreate_slowNoRecheck(p) ==
  /\ pc[p] = "GetOrCreate_slow"
  /\ IF key[p] \in DOMAIN staleItems
       THEN LET g == GetLocked(B, key[p])
            IN /\ Store(g.b)
               /\ Return(p, Ret("GetOrCreate", 122, g.val, FALSE, FALSE, g.evicted,
                                FALSE, 0))
               /\ rwm' = Unlocked(p)
               /\ fill' = FillOff
               /\ lastAdd' = <<>>
       ELSE /\ Goto(p, "GetOrCreate_create")
            /\ UNCHANGED <<staleItems, freshItems, maxItemMapLen, rwm, fill,
                           lastAdd>>
  /\ UNCHANGED ncreate

\* The two re-checks under the write lock (stale first, then fresh).
GetOrCreate_slow(p) ==
  /\ pc[p] = "GetOrCreate_slow"
  /\ IF key[p] \in DOMAIN staleItems
       THEN LET g == GetLocked(B, key[p])
            IN /\ Store(g.b)
               /\ Return(p, Ret("GetOrCreate", 122, g.val, FALSE, FALSE, g.evicted,
                                FALSE, 0))
               /\ rwm' = Unlocked(p)
               /\ fill' = FillOff
               /\ lastAdd' = <<>>
       ELSE IF key[p] \in DOMAIN freshItems
         THEN /\ Return(p, Ret("GetOrCreate", 127, freshItems[key[p]], FALSE, FALSE,
                               FALSE, FALSE, 0))
              /\ rwm' = Unlocked(p)
              /\ lastAdd' = <<>>
              /\ UNCHANGED <<staleItems, freshItems, maxItemMapLen, fill>>
         ELSE /\ Goto(p, "GetOrCreate_create")
              /\ UNCHANGED <<staleItems, freshItems, maxItemMapLen, rwm, fill,
                             lastAdd>>
  /\ UNCHANGED ncreate

\* created = true; val := create(); evicted = b.addLocked(key, val)
GetOrCreate_create(p) ==
  /\ pc[p] = "GetOrCreate_create"
  /\ \E v \in Values :
       LET a == addLocked(B, key[p], v)
       IN /\ Store(a.b)
          /\ Return(p, Ret("GetOrCreate", 135, v, FALSE, TRUE, a.evicted, FALSE, 0))
  /\ ncreate' = [ncreate EXCEPT ![p] = @ + 1]
  /\ rwm' = Unlocked(p)
  /\ fill' = FillOff
  /\ lastAdd' = <<>>

\* ------------------------------------------------------- specifications
\* One goroutine calling the methods one after the other.
SeqProcs == {1}
Init == InitWith(SeqProcs)
Next ==
  \E p \in SeqProcs :
    \/ MaxItems_call(p)
    \/ CallLen(p) \/ Len_RLock(p) \/ Len_read(p)
    \/ CallPurge(p) \/ Purge_Lock(p) \/ Purge_locked(p)
    \/ CallAdd(p, Keys) \/ Add_Lock(p) \/ Add_locked(p)
    \/ CallGet(p, Keys) \/ Get_RLock(p) \/ Get_fast(p)
    \/ Get_Lock(p) \/ Get_slow(p)
    \/ CallPeek(p, Keys) \/ Peek_RLock(p) \/ Peek_read(p)
    \/ CallGetOrCreate(p, Keys) \/ GetOrCreate_RLock(p)
    \/ GetOrCreate_fast(p) \/ GetOrCreate_Lock(p)
    \/ GetOrCreate_slow(p) \/ GetOrCreate_create(p)
Spec == Init /\ [][Next]_vars

\* NumProcs goroutines calling the methods concurrently.
ConcProcs == 1..NumProcs
InitConc == InitWith(ConcProcs)
NextConc ==
  \E p \in ConcProcs :
    \/ MaxItems_call(p)
    \/ CallLen(p) \/ Len_RLock(p) \/ Len_read(p)
    \/ CallPurge(p) \/ Purge_Lock(p) \/ Purge_locked(p)
    \/ CallAdd(p, KeysUpTo(ConcKeys)) \/ Add_Lock(p) \/ Add_locked(p)
    \/ CallGet(p, KeysUpTo(ConcKeys)) \/ Get_RLock(p) \/ Get_fast(p)
    \/ Get_Lock(p) \/ Get_slow(p)
    \/ CallPeek(p, KeysUpTo(ConcKeys)) \/ Peek_RLock(p) \/ Peek_read(p)
    \/ CallGetOrCreate(p, KeysUpTo(ConcKeys)) \/ GetOrCreate_RLock(p)
    \/ GetOrCreate_fast(p) \/ GetOrCreate_Lock(p)
    \/ GetOrCreate_slow(p) \/ GetOrCreate_create(p)
SpecConc == InitConc /\ [][NextConc]_vars

\* NumCallers goroutines, each calling GetOrCreate once with the same key,
\* on a cache that some adds of other keys have filled.
RaceKey == "1"
SetupAdds == (Keys \ {RaceKey}) \X Values
SetupSeqs == UNION {[1..n -> SetupAdds] : n \in 0..SetupLen}
RECURSIVE AfterAdds(_, _)
AfterAdds(b, adds) ==
  IF adds = <<>> THEN b
  ELSE AfterAdds(addLocked(b, Head(adds)[1], Head(adds)[2]).b, Tail(adds))

Callers == 1..NumCallers
InitRace ==
  /\ \E maxItems \in 1..MaxMaxItems, adds \in SetupSeqs :
       LET b == AfterAdds(NewBoundedCache(maxItems).b, adds)
       IN /\ staleItems = b.staleItems
          /\ freshItems = b.freshItems
          /\ maxItemMapLen = b.maxItemMapLen
  /\ rwm = NoLock
  /\ pc = [p \in Callers |-> "idle"]
  /\ key = [p \in Callers |-> NoKey]
  /\ val = [p \in Callers |-> NilV]
  /\ ret = [p \in Callers |-> NoRet]
  /\ ncreate = [p \in Callers |-> 0]
  /\ fill = FillOff
  /\ lastAdd = <<>>
  /\ made = MadeOff
  /\ watch = WatchOff
  /\ age = AgeOff
  /\ old = OldOff
CallRace(p) == pc[p] = "idle" /\ Call(p, "GetOrCreate_RLock", RaceKey, NilV)
NextRace ==
  \E p \in Callers :
    \/ CallRace(p) \/ GetOrCreate_RLock(p) \/ GetOrCreate_fast(p)
    \/ GetOrCreate_Lock(p) \/ GetOrCreate_slow(p) \/ GetOrCreate_create(p)
SpecRace == InitRace /\ [][NextRace]_vars

\* The constructor called with an argument of the whole range of int, then the
\* methods on the cache it returned.
ArgsNew == ((0 - NegArgs)..MaxMaxItems) \cup {TestSize, MaxInt, MinInt}
InitNew ==
  /\ \E n \in ArgsNew : made = [on |-> TRUE, maxItems |-> n]
  /\ staleItems = NoCache.staleItems
  /\ freshItems = NoCache.freshItems
  /\ maxItemMapLen = NoCache.maxItemMapLen
  /\ rwm = NoLock
  /\ pc = [p \in SeqProcs |-> "New"]
  /\ key = [p \in SeqProcs |-> NoKey]
  /\ val = [p \in SeqProcs |-> NilV]
  /\ ret = [p \in SeqProcs |-> NoRet]
  /\ ncreate = [p \in SeqProcs |-> 0]
  /\ fill = FillOff
  /\ lastAdd = <<>>
  /\ watch = WatchOff
  /\ age = AgeOff
  /\ old = OldOff
\* b, err := NewBoundedCache[V](maxItems): on an error there is no cache and
\* no method is ever called.
NewBoundedCache_call(p) ==
  /\ pc[p] = "New"
  /\ LET c == NewBoundedCache(made.maxItems)
     IN /\ Store(c.b)
        /\ pc' = [pc EXCEPT ![p] = IF c.ok THEN "done" ELSE "failed"]
        /\ ret' = [ret EXCEPT ![p] =
                     Ret("NewBoundedCache", IF c.ok THEN 21 ELSE 18, NilV, c.ok,
                         FALSE, FALSE, FALSE, 0)]
  /\ UNCHANGED <<rwm, key, val, ncreate, fill, lastAdd, made, watch, age, old>>
NextNew ==
  \E p \in SeqProcs :
    \/ NewBoundedCache_call(p)
    \/ MaxItems_call(p)
    \/ CallLen(p) \/ Len_RLock(p) \/ Len_read(p)
    \/ CallPurge(p) \/ Purge_Lock(p) \/ Purge_locked(p)
    \/ CallAdd(p, KeysUpTo(ConcKeys)) \/ Add_Lock(p) \/ Add_locked(p)
    \/ CallGet(p, KeysUpTo(ConcKeys)) \/ Get_RLock(p) \/ Get_fast(p)
    \/ Get_Lock(p) \/ Get_slow(p)
    \/ CallPeek(p, KeysUpTo(ConcKeys)) \/ Peek_RLock(p) \/ Peek_read(p)
    \/ CallGetOrCreate(p, KeysUpTo(ConcKeys)) \/ GetOrCreate_RLock(p)
    \/ GetOrCreate_fast(p) \/ GetOrCreate_Lock(p)
    \/ GetOrCreate_slow(p) \/ GetOrCreate_create(p)
SpecNew == InitNew /\ [][NextNew]_vars

\* The concurrent callers under fair scheduling.  The scheduler runs every
\* goroutine that can run (WF); a goroutine in Lock() is not overtaken for ever
\* by other writers, sync.Mutex handing the lock to a starving waiter (SF).
\* Nothing obliges a caller to call again.
LockStep(p) ==
  Purge_Lock(p) \/ Add_Lock(p) \/ Get_Lock(p) \/ GetOrCreate_Lock(p)
Progress(p) ==
  \/ Len_RLock(p) \/ Len_read(p) \/ Purge_locked(p) \/ Add_locked(p)
  \/ Get_RLock(p) \/ Get_fast(p) \/ Get_slow(p)
  \/ Peek_RLock(p) \/ Peek_read(p)
  \/ GetOrCreate_RLock(p) \/ GetOrCreate_fast(p)
  \/ GetOrCreate_slow(p) \/ GetOrCreate_create(p)
Fairness ==
  \A p \in ConcProcs : WF_vars(Progress(p)) /\ SF_vars(LockStep(p))
NextFair ==
  \E p \in ConcProcs :
    \/ MaxItems_call(p)
    \/ CallLen(p) \/ Len_RLock(p) \/ Len_read(p)
    \/ CallPurge(p) \/ Purge_Lock(p) \/ Purge_locked(p)
    \/ CallAdd(p, KeysUpTo(FairKeys)) \/ Add_Lock(p) \/ Add_locked(p)
    \/ CallGet(p, KeysUpTo(FairKeys)) \/ Get_RLock(p) \/ Get_fast(p)
    \/ Get_Lock(p) \/ Get_slow(p)
    \/ CallPeek(p, KeysUpTo(FairKeys)) \/ Peek_RLock(p) \/ Peek_read(p)
    \/ CallGetOrCreate(p, KeysUpTo(FairKeys)) \/ GetOrCreate_RLock(p)
    \/ GetOrCreate_fast(p) \/ GetOrCreate_Lock(p)
    \/ GetOrCreate_slow(p) \/ GetOrCreate_create(p)
SpecFair == InitConc /\ [][NextFair]_vars /\ Fairness

\* The concurrent callers again, with the history of what their calls saw.
InitWatch ==
  /\ \E maxItems \in 1..MaxMaxItems :
       LET c == NewBoundedCache(maxItems)
       IN /\ c.ok
          /\ staleItems = c.b.staleItems
          /\ freshItems = c.b.freshItems
          /\ maxItemMapLen = c.b.maxItemMapLen
  /\ rwm = NoLock
  /\ pc = [p \in ConcProcs |-> "idle"]
  /\ key = [p \in ConcProcs |-> NoKey]
  /\ val = [p \in ConcProcs |-> NilV]
  /\ ret = [p \in ConcProcs |-> NoRet]
  /\ ncreate = [p \in ConcProcs |-> 0]
  /\ fill = FillOff
  /\ lastAdd = <<>>
  /\ made = MadeOff
  /\ watch = WatchStart
  /\ age = AgeOff
  /\ old = OldOff
SpecWatch == InitWatch /\ [][NextConc]_vars

\* ------------------------------------------- whole calls of one goroutine
\* A method run from call to return by a goroutine that nobody interleaves
\* with: the fast path under the read lock, then the path under the write lock.
Add(b, k, v) ==
  LET a == addLocked(b, k, v)
  IN [b |-> a.b, ret |-> Ret("Add", 51, NilV, FALSE, FALSE, a.evicted, FALSE, 0)]
Get(b, k) ==
  IF k \in DOMAIN b.freshItems
    THEN [b |-> b,
          ret |-> Ret("Get", 62, b.freshItems[k], TRUE, FALSE, FALSE, FALSE, 0)]
    ELSE LET g == GetLocked(b, k)
         IN [b |-> g.b,
             ret |-> Ret("Get", IF g.ok THEN 75 ELSE 79, g.val, g.ok, FALSE,
                         g.evicted, FALSE, 0)]
GetOrCreate(b, k, v) ==
  IF k \in DOMAIN b.freshItems
    THEN [b |-> b,
          ret |-> Ret("GetOrCreate", 109, b.freshItems[k], FALSE, FALSE, FALSE,
                      FALSE, 0)]
    ELSE IF k \in DOMAIN b.staleItems
      THEN LET g == GetLocked(b, k)
           IN [b |-> g.b,
               ret |-> Ret("GetOrCreate", 122, g.val, FALSE, FALSE, g.evicted,
                           FALSE, 0)]
      ELSE LET a == addLocked(b, k, v)
           IN [b |-> a.b,
               ret |-> Ret("GetOrCreate", 135, v, FALSE, TRUE, a.evicted, FALSE, 0)]
Purge(b) ==
  [b |-> PurgeLocked(b), ret |-> Ret("Purge", 45, NilV, FALSE, FALSE, FALSE, FALSE, 0)]
LenCall(b) ==
  [b |-> b, ret |-> Ret("Len", 36, NilV, FALSE, FALSE, FALSE, FALSE, CacheLen(b))]
PeekCall(b, k) ==
  LET r == Peek(b, k)
  IN [b |-> b,
      ret |-> Ret("Peek", IF r.ok THEN (IF r.stale THEN 96 ELSE 92) ELSE 100,
                  r.val, r.ok, FALSE, FALSE, r.stale, 0)]

\* ------------------------------------------------- cache.go, the older cache
\* New of cache.go
New(maxItems) ==
  IF maxItems < 2
    THEN [ok |-> FALSE, b |-> NoCache]
    ELSE [ok |-> TRUE, b |-> [staleItems |-> EmptyMap, freshItems |-> EmptyMap,
                              maxItemMapLen |-> IntQuo(maxItems, 2)]]

\* Mutation of Old_addLocked: the rotation keeps the old staleItems.
Old_addLockedKeepsStale(b, k, v) ==
  LET full == MapLen(b.freshItems) >= b.maxItemMapLen
      f1 == IF full THEN EmptyMap ELSE b.freshItems
  IN [b |-> [b EXCEPT !.freshItems = MapSet(f1, k, v)], evicted |-> full]

\* addLocked of cache.go: evicted = true on every rotation.
Old_addLocked(b, k, v) ==
  LET full == MapLen(b.freshItems) >= b.maxItemMapLen
      s1 == IF full THEN b.freshItems ELSE b.staleItems
      f1 == IF full THEN EmptyMap ELSE b.freshItems
  IN [b |-> [b EXCEPT !.staleItems = s1, !.freshItems = MapSet(f1, k, v)],
      evicted |-> full]
Old_Add(b, k, v) ==
  LET a == Old_addLocked(b, k, v)
  IN [b |-> a.b, ret |-> Ret("Add", 51, NilV, FALSE, FALSE, a.evicted, FALSE, 0)]
\* the promotion of Get and GetOrCreate of cache.go
Old_promote(b, k) ==
  Old_addLocked([b EXCEPT !.staleItems = MapDelete(@, k)], k, b.staleItems[k])
Old_Get(b, k) ==
  IF k \in DOMAIN b.freshItems
    THEN [b |-> b,
          ret |-> Ret("Get", 62, b.freshItems[k], TRUE, FALSE, FALSE, FALSE, 0)]
    ELSE IF k \in DOMAIN b.staleItems
      THEN [b |-> Old_promote(b, k).b,
            ret |-> Ret("Get", 75, b.staleItems[k], TRUE, FALSE,
                        Old_promote(b, k).evicted, FALSE, 0)]
      ELSE [b |-> b, ret |-> Ret("Get", 78, NilV, FALSE, FALSE, FALSE, FALSE, 0)]
Old_GetOrCreate(b, k, v) ==
  IF k \in DOMAIN b.freshItems
    THEN [b |-> b,
          ret |-> Ret("GetOrCreate", 88, b.freshItems[k], FALSE, FALSE, FALSE,
                      FALSE, 0)]
    ELSE IF k \in DOMAIN b.staleItems
      THEN [b |-> Old_promote(b, k).b,
            ret |-> Ret("GetOrCreate", 101, b.staleItems[k], FALSE, FALSE,
                        Old_promote(b, k).evicted, FALSE, 0)]
      ELSE LET a == Old_addLocked(b, k, v)
           IN [b |-> a.b,
               ret |-> Ret("GetOrCreate", 114, v, FALSE, TRUE, a.evicted, FALSE, 0)]
Old_Purge(b) ==
  [b |-> [b EXCEPT !.staleItems = EmptyMap, !.freshItems = EmptyMap],
   ret |-> Ret("Purge", 45, NilV, FALSE, FALSE, FALSE, FALSE, 0)]
Old_Len(b) ==
  [b |-> b,
   ret |-> Ret("Len", 36, NilV, FALSE, FALSE, FALSE, FALSE,
               MapLen(b.freshItems) + MapLen(b.staleItems))]

\* ------------------------------------------------------ ageing of one key
TrackedKey == "1"
Min(a, b) == IF a < b THEN a ELSE b
\* the call ran the rotation protocol (addLocked)
Inserting(r) ==
  \/ r.op = "Add"
  \/ r.op = "Get" /\ r.line = 75
  \/ r.op = "GetOrCreate" /\ r.line \in {122, 135}
\* The history after a call with key k (NoKey for Purge and Len) that returned
\* r on the cache b.
Aged(a, b, k, r) ==
  IF ~a.on THEN a
  ELSE LET h == b.maxItemMapLen
           use == k = TrackedKey /\ (Inserting(r) \/ (r.op = "Get" /\ r.ok))
       IN [on |-> TRUE,
           used |-> IF r.op = "Purge" THEN FALSE ELSE a.used \/ use,
           ins |-> IF use \/ r.op = "Purge" THEN 0
                   ELSE IF Inserting(r) THEN Min(a.ins + 1, h + 1) ELSE a.ins,
           adds |-> IF k = TrackedKey THEN 0
                    ELSE IF r.op = "Add" /\ k \notin a.seen
                      THEN Min(a.adds + 1, 2 * h) ELSE a.adds,
           seen |-> IF r.op = "Add" \/ r.created THEN a.seen \cup {k} ELSE a.seen]

\* ------------------------------------------------- steps of whole calls
\* Goroutine p runs a whole call with key k: c is what the method does on this
\* cache, o what cache.go's method does on the older one.
Finish(p, k, c, o) ==
  /\ Idle(p)
  /\ Store(c.b)
  /\ pc' = [pc EXCEPT ![p] = "done"]
  /\ ret' = [ret EXCEPT ![p] = c.ret]
  /\ ncreate' = [ncreate EXCEPT ![p] = IF c.ret.created THEN 1 ELSE 0]
  /\ old' = IF old.on THEN [on |-> TRUE, b |-> o.b, ret |-> o.ret] ELSE old
  /\ age' = Aged(age, B, k, c.ret)
  /\ UNCHANGED <<rwm, key, val, fill, lastAdd, made, watch>>
Add_seq(p, K, V) ==
  \E k \in K, v \in V : Finish(p, k, Add(B, k, v), Old_Add(old.b, k, v))
Get_seq(p, K) ==
  \E k \in K : Finish(p, k, Get(B, k), Old_Get(old.b, k))
GetOrCreate_seq(p, K, V) ==
  \E k \in K, v \in V :
    Finish(p, k, GetOrCreate(B, k, v), Old_GetOrCreate(old.b, k, v))
Peek_seq(p, K) ==
  \E k \in K : Finish(p, k, PeekCall(B, k), [b |-> old.b, ret |-> old.ret])
Purge_seq(p) == Finish(p, NoKey, Purge(B), Old_Purge(old.b))
Len_seq(p) == Finish(p, NoKey, LenCall(B), Old_Len(old.b))

\* One goroutine, whole calls, with the history of TrackedKey.
InitAge ==
  /\ \E maxItems \in 1..MaxMaxItems :
       LET c == NewBoundedCache(maxItems)
       IN /\ c.ok
          /\ staleItems = c.b.staleItems
          /\ freshItems = c.b.freshItems
          /\ maxItemMapLen = c.b.maxItemMapLen
  /\ rwm = NoLock
  /\ pc = [p \in SeqProcs |-> "idle"]
  /\ key = [p \in SeqProcs |-> NoKey]
  /\ val = [p \in SeqProcs |-> NilV]
  /\ ret = [p \in SeqProcs |-> NoRet]
  /\ ncreate = [p \in SeqProcs |-> 0]
  /\ fill = FillOff
  /\ lastAdd = <<>>
  /\ made = MadeOff
  /\ watch = WatchOff
  /\ age = AgeStart
  /\ old = OldOff
NextAge ==
  \E p \in SeqProcs :
    \/ Add_seq(p, KeysUpTo(AgeKeys), 1..AgeValues)
    \/ Get_seq(p, KeysUpTo(AgeKeys))
    \/ GetOrCreate_seq(p, KeysUpTo(AgeKeys), 1..AgeValues)
    \/ Peek_seq(p, KeysUpTo(AgeKeys))
    \/ Purge_seq(p) \/ Len_seq(p)
SpecAge == InitAge /\ [][NextAge]_vars

\* One goroutine making the same whole calls on both caches, each built with
\* the same even maxItems.
PairSizes == {n \in 2..(MaxMaxItems + 1) : n % 2 = 0}
InitPair ==
  /\ \E maxItems \in PairSizes :
       LET c == NewBoundedCache(maxItems)
           o == New(maxItems)
       IN /\ c.ok /\ o.ok
          /\ staleItems = c.b.staleItems
          /\ freshItems = c.b.freshItems
          /\ maxItemMapLen = c.b.maxItemMapLen
          /\ old = [on |-> TRUE, b |-> o.b, ret |-> NoRet]
  /\ rwm = NoLock
  /\ pc = [p \in SeqProcs |-> "idle"]
  /\ key = [p \in SeqProcs |-> NoKey]
  /\ val = [p \in SeqProcs |-> NilV]
  /\ ret = [p \in SeqProcs |-> NoRet]
  /\ ncreate = [p \in SeqProcs |-> 0]
  /\ fill = FillOff
  /\ lastAdd = <<>>
  /\ made = MadeOff
  /\ watch = WatchOff
  /\ age = AgeOff
NextPair ==
  \E p \in SeqProcs :
    \/ Add_seq(p, Keys, Values) \/ Get_seq(p, Keys)
    \/ GetOrCreate_seq(p, Keys, Values)
    \/ Purge_seq(p) \/ Len_seq(p)
SpecPair == InitPair /\ [][NextPair]_vars

\* ================================================================ claims
RECURSIVE SumOver(_, _)
SumOver(f, S) ==
  IF S = {} THEN 0
  ELSE LET x == CHOOSE y \in S : TRUE IN f[x] + SumOver(f, S \ {x})
Procs == DOMAIN pc
AllDone == \A p \in Procs : pc[p] = "done"
\* goroutine p takes the step that leaves label `at` and returns
Returns(p, at) == pc[p] = at /\ pc'[p] = "done"

\* C1: under every interleaving each generation holds at most maxItemMapLen
\* entries, Len() is at most MaxItems(), and so is every value Len() returned.
C1_GenerationsBounded ==
  /\ MapLen(freshItems) <= maxItemMapLen
  /\ MapLen(staleItems) <= maxItemMapLen
  /\ CacheLen(B) <= MaxItems(B)
  /\ \A p \in Procs : ret[p].op = "Len" => ret[p].n <= MaxItems(B)
\* C1 witness: the cache is full in both generations while two goroutines
\* are in the middle of their calls.
C1_FullUnderContention ==
  /\ maxItemMapLen > 1
  /\ MapLen(freshItems) = maxItemMapLen
  /\ MapLen(staleItems) = maxItemMapLen
  /\ \E p, q \in Procs : pc[p] = "Add_Lock" /\ pc[q] = "Get_fast"

\* C2: no key is in the fresh and in the stale generation at the same time.
C2_NoKeyInBothGenerations ==
  (DOMAIN freshItems) \cap (DOMAIN staleItems) = {}

\* C3: when the callers of GetOrCreate(RaceKey) race on a cache that does not
\* hold the key, create() is never run twice, and once all have returned it
\* has run exactly once, all returned the same value and exactly one returned
\* created=true.
C3_CreateOnce ==
  /\ SumOver(ncreate, Procs) <= 1
  /\ AllDone =>
       /\ SumOver(ncreate, Procs) = 1
       /\ \A p, q \in Procs : ret[p].val = ret[q].val
       /\ Cardinality({p \in Procs : ret[p].created}) = 1
\* C3 witness: all callers have returned, one of them having created.
C3_RaceOver ==
  /\ AllDone
  /\ Cardinality(Procs) >= 2
  /\ \E p \in Procs : ret[p].created
  /\ \E p \in Procs : ret[p].line = 127

\* C4: an Add(k, v) that directly follows an Add(k, v) with the same key and
\* value leaves Len() as it was.
C4_AddIdempotent ==
  [][\A p \in Procs :
       (Returns(p, "Add_locked") /\ lastAdd = <<key[p], val[p]>>)
         => CacheLen(B') = CacheLen(B)]_vars

\* C5: while only adds of pairwise distinct keys have happened since the cache
\* was empty, no add returned evicted=true; after maxItemMapLen of them Len()
\* is maxItemMapLen; after MaxItems() of them Len() is MaxItems() and Peek
\* finds every key, the first half stale and the second half fresh.
C5_FillWithoutEviction ==
  fill.on =>
    LET n == Len(fill.keys)
        h == maxItemMapLen
    IN /\ ~fill.evicted
       /\ n = h => CacheLen(B) = h
       /\ n = 2 * h =>
            /\ CacheLen(B) = MaxItems(B)
            /\ \A i \in 1..n :
                 /\ Peek(B, fill.keys[i]).ok
                 /\ Peek(B, fill.keys[i]).stale <=> i <= h
\* C5 witness: MaxItems() = 4 distinct keys have been added to an empty cache.
C5_Filled ==
  fill.on /\ maxItemMapLen > 1 /\ Len(fill.keys) = MaxItems(B)

\* C6: Get(k) with the fresh generation full and k only in the stale one,
\* beside another key: returns k's value, found and evicted; afterwards k is
\* fresh, the other keys that were stale are gone and the keys that were fresh
\* are stale.
C6_GetStaleRotates ==
  [][\A p \in Procs :
       (/\ Returns(p, "Get_slow")
        /\ MapLen(freshItems) = maxItemMapLen
        /\ key[p] \in DOMAIN staleItems
        /\ key[p] \notin DOMAIN freshItems
        /\ MapLen(staleItems) >= 2)
       => /\ ret'[p].val = staleItems[key[p]]
          /\ ret'[p].ok
          /\ ret'[p].evicted
          /\ Peek(B', key[p]).ok /\ ~Peek(B', key[p]).stale
          /\ \A j \in Keys \ {key[p]} :
               /\ (Peek(B, j).ok /\ Peek(B, j).stale) => ~Peek(B', j).ok
               /\ j \in DOMAIN freshItems
                    => (Peek(B', j).ok /\ Peek(B', j).stale)]_vars
\* C6 witness: a Get has promoted its key and evicted, leaving one fresh key
\* and a full stale generation of two.
C6_PromotedWithEviction ==
  \E p \in Procs :
    /\ pc[p] = "done" /\ ret[p].op = "Get" /\ ret[p].line = 75
    /\ ret[p].evicted
    /\ MapLen(freshItems) = 1 /\ MapLen(staleItems) = 2
    /\ (DOMAIN freshItems) \cap (DOMAIN staleItems) = {}

\* C7: Get(k) with k in the stale generation and not in the fresh one returns
\* found with k's value, and afterwards Peek(k) reports that value as fresh,
\* with or without a rotation.
C7_GetPromotes ==
  [][\A p \in Procs :
       (/\ Returns(p, "Get_slow")
        /\ key[p] \in DOMAIN staleItems
        /\ key[p] \notin DOMAIN freshItems)
       => /\ ret'[p].ok
          /\ ret'[p].val = staleItems[key[p]]
          /\ Peek(B', key[p]) =
               [val |-> staleItems[key[p]], ok |-> TRUE, stale |-> FALSE]]_vars
\* C7 witness: a Get has promoted its key without rotating: the fresh
\* generation holds two keys, the stale one still holds one.
C7_PromotedWithoutRotation ==
  \E p \in Procs :
    /\ pc[p] = "done" /\ ret[p].op = "Get" /\ ret[p].line = 75
    /\ ~ret[p].evicted
    /\ MapLen(freshItems) = 2 /\ MapLen(staleItems) = 1

\* C8: for every key, Peek finds it exactly when it is in a generation,
\* reports stale=false exactly when it is in the fresh one, and returns the
\* value that generation stores.
C8_PeekReportsGeneration ==
  \A k \in Keys :
    LET r == Peek(B, k)
    IN /\ r.ok <=> k \in (DOMAIN freshItems) \cup (DOMAIN staleItems)
       /\ r.ok =>
            /\ ~r.stale <=> k \in DOMAIN freshItems
            /\ r.val = IF k \in DOMAIN freshItems THEN freshItems[k]
                       ELSE staleItems[k]
\* C8 witness: some key is in both generations with two different values, a
\* second key is stale only, a third is in neither.
C8_EveryPeekCase ==
  /\ \E k \in Keys :
       /\ k \in (DOMAIN freshItems) \cap (DOMAIN staleItems)
       /\ freshItems[k] # staleItems[k]
  /\ \E k \in Keys : k \in (DOMAIN staleItems) \ (DOMAIN freshItems)
  /\ \E k \in Keys : k \notin (DOMAIN freshItems) \cup (DOMAIN staleItems)

\* C9: the steps of Peek, of Len, of MaxItems, of a Get that finds its key in
\* the fresh generation and of a Get that finds it in neither leave both maps
\* and maxItemMapLen as they were.
ReadOnlyStep(p) ==
  \/ pc[p] \in {"Peek_RLock", "Peek_read", "Len_RLock", "Len_read",
                "Get_RLock", "Get_fast", "Get_Lock"} /\ pc'[p] # pc[p]
  \/ Returns(p, "Get_slow") /\ key[p] \notin DOMAIN staleItems
  \/ Idle(p) /\ ret'[p].op = "MaxItems"
  \/ Idle(p) /\ pc'[p] \in {"Peek_RLock", "Len_RLock", "Get_RLock"}
C9_ReadOnlyPaths ==
  [][\A p \in Procs : ReadOnlyStep(p) => B' = B]_vars
\* C9 witness: a Get has returned not found from under the write lock while
\* the cache holds entries in both generations.
C9_MissOnPopulatedCache ==
  \E p \in Procs :
    /\ pc[p] = "done" /\ ret[p].op = "Get" /\ ret[p].line = 79
    /\ freshItems # EmptyMap /\ staleItems # EmptyMap

\* C10: when Purge returns, Len() is 0, Peek finds no key, and MaxItems() is
\* what it was.
C10_PurgeEmpties ==
  [][\A p \in Procs :
       Returns(p, "Purge_locked")
         => /\ CacheLen(B') = 0
            /\ \A k \in Keys : ~Peek(B', k).ok
            /\ MaxItems(B') = MaxItems(B)]_vars
\* C10 witness: a Purge has returned and the cache, of capacity 4, is empty.
C10_Purged ==
  \E p \in Procs :
    /\ pc[p] = "done" /\ ret[p].op = "Purge"
    /\ CacheLen(B) = 0 /\ maxItemMapLen > 1

\* C12: Add returns evicted=true exactly when, at the step it takes under the
\* write lock, the fresh generation holds maxItemMapLen entries and the stale
\* generation is not empty.
C12_AddEvictedIff ==
  [][\A p \in Procs :
       Returns(p, "Add_locked")
         => (ret'[p].evicted <=>
               (MapLen(freshItems) = maxItemMapLen /\ MapLen(staleItems) > 0))]_vars
\* C12 witness: an Add has returned evicted=true while another goroutine is
\* inside a call, and the stale generation is full again.
C12_AddEvicted ==
  \E p, q \in Procs :
    /\ pc[p] = "done" /\ ret[p].op = "Add" /\ ret[p].evicted
    /\ ~Idle(q)
    /\ MapLen(staleItems) = maxItemMapLen

\* C15: create() runs at most once per GetOrCreate call, only under the write
\* lock and only with the key in neither generation; the call returns
\* created=true exactly when it ran create(), and then returns the value it
\* has just stored for the key in the fresh generation.
C15_CreateUnderLock ==
  /\ [](\A p \in Procs :
          /\ ncreate[p] <= 1
          /\ pc[p] = "GetOrCreate_create"
               => (rwm.writer = {p} /\ key[p] \notin Resident(B))
          /\ (pc[p] = "done" /\ ret[p].op = "GetOrCreate")
               => (ret[p].created <=> ncreate[p] = 1))
  /\ [][\A p \in Procs :
          ncreate'[p] > ncreate[p]
            => /\ pc[p] = "GetOrCreate_create" /\ rwm.writer = {p}
               /\ key[p] \notin Resident(B)
               /\ pc'[p] = "done" /\ ret'[p].created
               /\ ret'[p].val \in Values
               /\ key[p] \in DOMAIN freshItems'
               /\ freshItems'[key[p]] = ret'[p].val]_vars
\* C15 witness: a GetOrCreate has created its value while another goroutine
\* waits for the write lock in GetOrCreate.
C15_CreatedUnderContention ==
  \E p, q \in Procs :
    /\ pc[p] = "done" /\ ret[p].op = "GetOrCreate" /\ ret[p].created
    /\ ncreate[p] = 1
    /\ pc[q] = "GetOrCreate_Lock"

\* C20: an Add, Get or GetOrCreate returns evicted=true exactly when some key
\* that Peek found before the call is not found after it.
MutatingReturn(p) ==
  \/ Returns(p, "Add_locked")
  \/ Returns(p, "Get_fast") \/ Returns(p, "Get_slow")
  \/ Returns(p, "GetOrCreate_fast") \/ Returns(p, "GetOrCreate_slow")
  \/ Returns(p, "GetOrCreate_create")
C20_EvictedIffKeyLost ==
  [][\A p \in Procs :
       MutatingReturn(p)
         => (ret'[p].evicted <=>
               \E k \in Keys : Peek(B, k).ok /\ ~Peek(B', k).ok)]_vars

\* C11: NewBoundedCache(n) returns an error and no cache for every n <= 0; for
\* every n >= 1 it returns an empty cache whose MaxItems() is 2*ceil(n/2) (2 for
\* n = 1, 4 for n = 3, TestSize for n = TestSize), and MaxItems() keeps that
\* value under every later call.
CeilHalf(n) == (n \div 2) + (n % 2)
C11_Construction ==
  \A p \in Procs :
    (made.on /\ pc[p] # "New") =>
      IF made.maxItems <= 0
        THEN pc[p] = "failed" /\ ~ret[p].ok /\ B = NoCache
        ELSE /\ pc[p] # "failed"
             /\ ret[p].op = "NewBoundedCache" => (ret[p].ok /\ CacheLen(B) = 0)
             /\ MaxItems(B) = 2 * CeilHalf(made.maxItems)
             /\ ret[p].op = "MaxItems" => ret[p].n = 2 * CeilHalf(made.maxItems)
             /\ made.maxItems = 1 => MaxItems(B) = 2
             /\ made.maxItems = 3 => MaxItems(B) = 4
             /\ made.maxItems = TestSize => MaxItems(B) = TestSize
\* C13: a Get(k) returns ok=false only if at some instant of the call k was
\* in neither generation: at the return, either an earlier state of the call
\* or the state the return is taken in is without k.
C13_GetMissSawAbsence ==
  [][\A p \in Procs :
       (watch.on /\ Returns(p, "Get_slow") /\ ~ret'[p].ok)
         => (p \in watch.absent \/ key[p] \notin Resident(B))]_vars

\* C14: the value the cache holds for a key is the one the last Add or create()
\* for that key wrote, and every Get, GetOrCreate or Peek that finds the key
\* returns that value.
C14_LatestValueStored ==
  /\ [](watch.on =>
          \A k \in DOMAIN watch.latest :
            Peek(B, k).ok => Peek(B, k).val = watch.latest[k])
  /\ [][\A p \in Procs :
          (/\ watch.on
           /\ ~Idle(p) /\ pc'[p] = "done"
           /\ ret'[p].op \in {"Get", "GetOrCreate", "Peek"}
           /\ ret'[p].ok \/ ret'[p].op = "GetOrCreate")
            => ret'[p].val = watch'.latest[key[p]]]_vars
\* C18: a goroutine outside a call holds no lock and waits for none; while
\* some call is in progress some goroutine inside a call can take a step; and
\* under fair scheduling every call in progress returns.
HoldsOrWaits(p) ==
  p \in rwm.readers \cup rwm.writer \cup rwm.pending \cup rwm.parked
C18_EveryCallReturns ==
  /\ [](\A p \in ConcProcs : Idle(p) => ~HoldsOrWaits(p))
  /\ []((\E p \in ConcProcs : ~Idle(p))
          => \E p \in ConcProcs :
               ~Idle(p) /\ ENABLED (Progress(p) \/ LockStep(p)))
  /\ \A p \in ConcProcs : (~Idle(p)) ~> (pc[p] = "done")
\* C18 witness: a writer has announced itself and waits for a reader to
\* leave, the reader being about to upgrade to the exclusive lock.
C18_WriterBehindReader ==
  \E p, q \in ConcProcs :
    /\ p \in rwm.pending /\ pc[p] = "Add_Lock"
    /\ q \in rwm.readers /\ pc[q] = "Get_fast"
    /\ key[q] \notin DOMAIN freshItems
\* C16: once TrackedKey was inserted by Add or GetOrCreate, or found by Get,
\* and no Purge followed, it stays resident while at most maxItemMapLen further
\* insertions have completed: no fewer than maxItemMapLen + 1 insertions evict it.
C16_MinimumSurvival ==
  (age.on /\ age.used /\ age.ins <= maxItemMapLen)
    => Peek(B, TrackedKey).ok
\* C16 witness: TrackedKey is still there, in the stale generation, after
\* exactly maxItemMapLen = 2 insertions of other keys.
C16_SurvivedHalf ==
  /\ age.on /\ age.used
  /\ maxItemMapLen = 2 /\ age.ins = maxItemMapLen
  /\ Peek(B, TrackedKey).stale

\* C17: after 2 * maxItemMapLen Adds of keys that were never stored before,
\* with no call on TrackedKey since they began, TrackedKey is not resident.
C17_MaximumSurvival ==
  (age.on /\ age.adds >= 2 * maxItemMapLen) => ~Peek(B, TrackedKey).ok
\* C17 witness: TrackedKey was stored, then 2 * maxItemMapLen = 4 new keys
\* were added and nothing else was done.
C17_AgedOut ==
  /\ age.on /\ TrackedKey \in age.seen
  /\ maxItemMapLen = 2 /\ age.adds = 2 * maxItemMapLen
  /\ age.ins = maxItemMapLen + 1 /\ age.used
  /\ Cardinality(age.seen) = 2 * maxItemMapLen + 1
\* what the two methods returned, the evicted flag left aside
SameButEvicted(r, o) ==
  /\ r.op = o.op /\ r.val = o.val /\ r.ok = o.ok
  /\ r.created = o.created /\ r.n = o.n
\* the call that returns in this step rotated the generations
Rotated(p) == Inserting(ret'[p]) /\ MapLen(freshItems) >= maxItemMapLen
\* the keys the rotation of this step discarded (a promoted key is kept)
Discarded(p) ==
  IF ret'[p].line \in {75, 122}
    THEN (DOMAIN staleItems) \ (DOMAIN freshItems')
    ELSE DOMAIN staleItems

\* C19 as stated: after every step the older cache and this one hold the same
\* fresh and stale contents and have returned the same results, the evicted
\* flag included.
C19_SameResults ==
  old.on =>
    /\ old.b = B
    /\ \A p \in Procs :
         SameButEvicted(ret[p], old.ret) /\ ret[p].evicted = old.ret.evicted

\* C19 amended: the two caches hold the same contents after every step and
\* return the same values, flags and sizes except evicted: the older cache
\* returns evicted=true exactly when the call rotated the generations, this
\* one only if the rotation discarded a non-empty stale generation, so that
\* evicted=true here implies evicted=true there and the two differ exactly on
\* the rotations that discard an empty stale generation.
C19_SameButEvictedFlag ==
  /\ [](old.on =>
          /\ old.b = B
          /\ \A p \in SeqProcs :
               /\ SameButEvicted(ret[p], old.ret)
               /\ ret[p].evicted => old.ret.evicted)
  /\ [][old.on =>
          \A p \in SeqProcs :
            /\ old'.ret.evicted <=> Rotated(p)
            /\ (old'.ret.evicted /\ ~ret'[p].evicted)
                 <=> (Rotated(p) /\ Discarded(p) = {})]_vars
\* C19 witness: both caches hold the same two entries after a call that
\* returned evicted=true on the older cache and evicted=false on this one.
C19_FlagsDiffer ==
  /\ old.on /\ old.b = B /\ CacheLen(B) >= 2
  /\ \E p \in Procs : old.ret.evicted /\ ~ret[p].evicted
====
